---- MODULE Spec2Model ----
(***************************************************************************)
(* Model of the URL shortener: Token (src/src/token.rs), Store             *)
(* (src/src/store.rs) and the request handlers (src/src/shortener.rs,      *)
(* src/src/main.rs).                                                       *)
(*                                                                         *)
(* A char is its Unicode code point; a Rust string is the sequence of its  *)
(* chars.  A Token (tuple struct Token(String)) is the 1-tuple <<s>>.      *)
(* A HashMap<Token, Url> is a set of <<key, value>> entries.  A Url is the *)
(* text of its serialisation.                                              *)
(***************************************************************************)
EXTENDS Integers, Sequences, FiniteSets

VARIABLES
    items,      \* Store.items: the HashMap<Token, Url>
    call,       \* the last Store call: its arguments, result, and items before it
    prev,       \* the Store call before that one (operation, token, url)
    log,        \* history: the <<token, url>> of every registration, in order
    lock,       \* the Mutex<AppState>: its holder, or NoHandler
    pc,         \* per handler task: the position in its handler
    req,        \* per handler task: the request it serves and its locals
    poisoned,   \* the poison flag of the Mutex<AppState>
    snap        \* history, per handler task: items when it acquired the lock

vars == <<items, call, prev, log, lock, pc, req, poisoned, snap>>

storeVars == <<items, call, prev, log>>
httpVars == <<lock, pc, req, poisoned, snap>>

----------------------------------------------------------------------------
(* Bounds *)

\* number of Store::register_url calls in a behaviour
MaxRegs == 2

\* samples the random stream holds beyond the TOKEN_LENGTH that are taken
StreamExtra == 1

----------------------------------------------------------------------------
(* Characters and strings *)

\* str::len(): the length in bytes of the UTF-8 encoding of one char
Utf8Len(c) ==
    IF c < 128 THEN 1 ELSE IF c < 2048 THEN 2 ELSE IF c < 65536 THEN 3 ELSE 4

RECURSIVE StrLen(_)
\* str::len(): the length of a string in UTF-8 bytes
StrLen(s) == IF s = <<>> THEN 0 ELSE Utf8Len(Head(s)) + StrLen(Tail(s))

\* the number of chars of a string (s.chars().count())
CharCount(s) == Len(s)

IsAsciiAlphanumeric(c) ==
    \/ c \in 48..57      \* 0-9
    \/ c \in 65..90      \* A-Z
    \/ c \in 97..122     \* a-z

\* char::is_alphanumeric(): Unicode Alphabetic or Numeric; beyond ASCII the
\* model knows U+00E9 (e with acute), which is Alphabetic
IsAlphanumeric(c) == IsAsciiAlphanumeric(c) \/ c = 233

AllAlphanumeric(s) == \A i \in 1..Len(s) : IsAlphanumeric(s[i])

Ok(v) == [ok |-> TRUE, val |-> v, err |-> ""]
Err(e) == [ok |-> FALSE, val |-> <<>>, err |-> e]

----------------------------------------------------------------------------
(* Token *)

TOKEN_LENGTH == 6

Token(s) == <<s>>

as_str(t) == t[1]

NoToken == <<>>

\* Iterator::take(n) on a stream of samples
Take(stream, n) == [i \in 1..(IF Len(stream) < n THEN Len(stream) ELSE n) |-> stream[i]]

TokenDefaultTakesOneMore(stream) == Token(Take(stream, TOKEN_LENGTH + 1))

\* Token::default(): TOKEN_LENGTH samples of the Alphanumeric distribution,
\* each byte turned into the char of the same code point, collected
TokenDefault(stream) == Token(Take(stream, TOKEN_LENGTH))

TryFromCountsChars(value) ==
    IF CharCount(value) # TOKEN_LENGTH
        THEN Err("Token must be 6 characters long")
        ELSE Ok(Token(value))

TryFromAcceptsShorter(value) ==
    IF StrLen(value) > TOKEN_LENGTH
        THEN Err("Token must be 6 characters long")
        ELSE Ok(Token(value))

TryFromChecksCharacters(value) ==
    IF StrLen(value) # TOKEN_LENGTH \/ ~AllAlphanumeric(value)
        THEN Err("Token must be 6 characters long")
        ELSE Ok(Token(value))

\* Token::try_from(&str)
TryFrom(value) ==
    IF StrLen(value) # TOKEN_LENGTH
        THEN Err("Token must be 6 characters long")
        ELSE Ok(Token(value))

----------------------------------------------------------------------------
(* Inputs *)

StreamLen == TOKEN_LENGTH + StreamExtra

\* samples rand::distr::Alphanumeric yields: 'a', 'Z', '7'
AlphanumericSamples == {97, 90, 55}

\* the random streams of the model: all 'a', or all 'a' but one sample, at
\* the first or at the last position of the stream
RngStreams ==
    { [i \in 1..StreamLen |-> IF i = p THEN c ELSE 97] :
        p \in {1, StreamLen}, c \in AlphanumericSamples }

Urls == {"https://example1.com/", "https://example2.com/"}

NoUrl == ""

\* token texts a caller may pass to resolve_token
MalformedTexts ==
    { <<>>,                                    \* ""
      <<97, 98, 99, 49, 50>>,                  \* "abc12"
      <<49, 50, 51, 52, 53, 54, 55>>,          \* "1234567"
      <<49, 50, 51, 52, 53, 54>>,              \* "123456"
      <<97, 98, 45, 99, 100, 101>>,            \* "ab-cde"
      <<233, 233, 233>>,                       \* 3 chars, 6 bytes
      <<233, 233, 233, 233, 233, 233>> }       \* 6 chars, 12 bytes

GeneratedTexts == { as_str(TokenDefault(s)) : s \in RngStreams }

TokenTexts == MalformedTexts \cup GeneratedTexts

----------------------------------------------------------------------------
(* HashMap<Token, Url> *)

Keys(m) == { e[1] : e \in m }

ContainsKey(m, k) == \E e \in m : e[1] = k

HashMapInsertKeepsOld(m, k, v) == m \cup {<<k, v>>}

HashMapInsertKeepsFirst(m, k, v) == IF ContainsKey(m, k) THEN m ELSE m \cup {<<k, v>>}

HashMapInsertReplacesAll(m, k, v) == {<<k, v>>}

\* HashMap::insert: the entry of k is replaced
HashMapInsert(m, k, v) == { e \in m : e[1] # k } \cup {<<k, v>>}

\* HashMap::get(..).cloned()
HashMapGet(m, k) ==
    IF ContainsKey(m, k)
        THEN [some |-> TRUE, val |-> (CHOOSE e \in m : e[1] = k)[2]]
        ELSE [some |-> FALSE, val |-> NoUrl]

----------------------------------------------------------------------------
(* Store *)

Store_register_url_FailsOnCollision(its, url, stream) ==
    LET token == TokenDefault(stream)
    IN  IF ContainsKey(its, token)
            THEN [items |-> its, ret |-> Err("Token already registered")]
            ELSE [items |-> HashMapInsert(its, token, url), ret |-> Ok(token)]

\* Store::register_url(&mut self, url), with the random stream it samples
Store_register_url(its, url, stream) ==
    LET token == TokenDefault(stream)
    IN  [items |-> HashMapInsert(its, token, url), ret |-> Ok(token)]

Store_resolve_token_Removes(its, text) ==
    LET parsed == TryFrom(text)
    IN  IF ~parsed.ok
            THEN [items |-> its, ret |-> Err(parsed.err)]
            ELSE LET got == HashMapGet(its, parsed.val)
                 IN  IF got.some
                        THEN [items |-> { e \in its : e[1] # parsed.val },
                              ret |-> Ok(got.val)]
                        ELSE [items |-> its, ret |-> Err("Token not found")]

Store_resolve_token_Inserts(its, text) ==
    LET parsed == TryFrom(text)
    IN  IF ~parsed.ok
            THEN [items |-> its, ret |-> Err(parsed.err)]
            ELSE LET got == HashMapGet(its, parsed.val)
                 IN  IF got.some
                        THEN [items |-> its, ret |-> Ok(got.val)]
                        ELSE [items |-> HashMapInsert(its, parsed.val, NoUrl),
                              ret |-> Ok(NoUrl)]

\* Store::resolve_token(&self, token)
Store_resolve_token(its, text) ==
    LET parsed == TryFrom(text)
    IN  IF ~parsed.ok
            THEN [items |-> its, ret |-> Err(parsed.err)]
            ELSE LET got == HashMapGet(its, parsed.val)
                 IN  IF got.some
                        THEN [items |-> its, ret |-> Ok(got.val)]
                        ELSE [items |-> its, ret |-> Err("Token not found")]

----------------------------------------------------------------------------
(* Requests and responses *)

Handlers == {"h1", "h2"}

NoHandler == "none"

NoHeader == "<absent>"

\* the header sets of the model's POST requests
HeaderSets ==
    { [xfp |-> NoHeader, xfh |-> NoHeader, host |-> NoHeader],
      [xfp |-> "https", xfh |-> "sho.rt", host |-> "localhost:3000"],
      [xfp |-> NoHeader, xfh |-> NoHeader, host |-> ""],
      [xfp |-> "a:b", xfh |-> NoHeader, host |-> "sho.rt"] }

\* the bodies of the model's POST requests
Bodies == {"https://example1.com", "https://example2.com", "not-a-url"}

\* the token texts of the model's GET /{token} requests: a path segment is
\* never empty
PathTexts == TokenTexts \ {<<>>}

NoBase == [scheme |-> "", host |-> "", cannot_be_a_base |-> FALSE]

\* Url::parse(&format!("{}://{}", proto, host)): a proto holding ':' ends the
\* scheme there and leaves an opaque path; http and https need a host
ParseBaseUrl(proto, host) ==
    IF proto = "a:b"
        THEN Ok([scheme |-> "a", host |-> "", cannot_be_a_base |-> TRUE])
        ELSE IF host = ""
            THEN [ok |-> FALSE, val |-> NoBase, err |-> "Failed to parse base URL"]
            ELSE Ok([scheme |-> proto, host |-> host, cannot_be_a_base |-> FALSE])

\* extract_base_url(&req)
extract_base_url(hdr) ==
    LET proto == IF hdr.xfp # NoHeader THEN hdr.xfp ELSE "http"
        host == IF hdr.xfh # NoHeader THEN hdr.xfh
                ELSE IF hdr.host # NoHeader THEN hdr.host ELSE "localhost"
    IN  ParseBaseUrl(proto, host)

\* extract_body_url(req): Url::parse of the body; the Url serialises with
\* its path
extract_body_url(body) ==
    CASE body = "https://example1.com" -> Ok("https://example1.com/")
      [] body = "https://example2.com" -> Ok("https://example2.com/")
      [] OTHER -> [ok |-> FALSE, val |-> NoUrl, err |-> "Failed to parse URL"]

\* base_url.join(token.as_str())
UrlJoin(base, text) ==
    IF base.cannot_be_a_base
        THEN Err("relative URL with a cannot-be-a-base base")
        ELSE Ok(<<base.scheme, base.host, text>>)

NoResp == [status |-> "", location |-> NoUrl, body |-> <<>>]

StatusCode(code) == [NoResp EXCEPT !.status = code]

\* Redirect::to(&url)
RedirectTo(url) == [NoResp EXCEPT !.status = "SEE_OTHER", !.location = url]

OkBody(b) == [NoResp EXCEPT !.status = "OK", !.body = b]

NoReq ==
    [kind |-> "none", text |-> <<>>,
     hdr |-> [xfp |-> NoHeader, xfh |-> NoHeader, host |-> NoHeader], base |-> NoBase,
     body |-> "", url |-> NoUrl, tok |-> NoToken, resp |-> NoResp,
     inserted |-> FALSE]

----------------------------------------------------------------------------
(* Store calls, one at a time (the tests of src/src/store.rs) *)

NoCall ==
    [op |-> "none", url |-> NoUrl, text |-> <<>>, parsedOk |-> FALSE,
     parsed |-> NoToken, ok |-> FALSE, token |-> NoToken, resUrl |-> NoUrl,
     err |-> "", before |-> {}]

Summary(c) == [op |-> c.op, token |-> c.token, url |-> c.url]

Init ==
    /\ items = {}
    /\ call = NoCall
    /\ prev = Summary(NoCall)
    /\ log = <<>>
    /\ lock = NoHandler
    /\ pc = [h \in Handlers |-> "idle"]
    /\ req = [h \in Handlers |-> NoReq]
    /\ poisoned = FALSE
    /\ snap = [h \in Handlers |-> {}]

\* store.register_url(url)
RegisterUrl ==
    \E url \in Urls, stream \in RngStreams :
        /\ Len(log) < MaxRegs
        /\ LET r == Store_register_url(items, url, stream)
           IN  /\ items' = r.items
               /\ call' = [NoCall EXCEPT !.op = "register_url", !.url = url,
                                         !.ok = r.ret.ok, !.token = r.ret.val,
                                         !.err = r.ret.err, !.before = items]
               /\ log' = IF r.ret.ok THEN Append(log, <<r.ret.val, url>>) ELSE log
        /\ prev' = Summary(call)
        /\ UNCHANGED httpVars

\* store.resolve_token(text)
ResolveToken ==
    \E text \in TokenTexts :
        /\ LET r == Store_resolve_token(items, text)
               parsed == TryFrom(text)
           IN  /\ items' = r.items
               /\ call' = [NoCall EXCEPT !.op = "resolve_token", !.text = text,
                                         !.parsedOk = parsed.ok, !.parsed = parsed.val,
                                         !.ok = r.ret.ok,
                                         !.resUrl = IF r.ret.ok THEN r.ret.val ELSE NoUrl,
                                         !.err = r.ret.err, !.before = items]
        /\ prev' = Summary(call)
        /\ UNCHANGED <<log, httpVars>>

Next == RegisterUrl \/ ResolveToken

Spec == Init /\ [][Next]_vars

----------------------------------------------------------------------------
(* The request handlers, as concurrent tasks sharing Arc<Mutex<AppState>> *)

\* registrations begun and not yet inserted
RegistersInFlight ==
    { h \in Handlers :
        pc[h] \in {"register_body", "register_lock", "register_token",
                   "register_insert"} }

\* a handler returns: its guard, if it holds one, is dropped
ReturnWith(h, resp) ==
    /\ pc' = [pc EXCEPT ![h] = "done"]
    /\ req' = [req EXCEPT ![h].resp = resp]

\* GET /{token} is routed to resolve_url, with a token text of texts
ResolveUrl_StartWith(h, texts) ==
    /\ pc[h] = "idle"
    /\ \E text \in texts :
          req' = [req EXCEPT ![h] = [NoReq EXCEPT !.kind = "resolve_url", !.text = text]]
    /\ pc' = [pc EXCEPT ![h] = "resolve_lock"]
    /\ UNCHANGED <<storeVars, lock, poisoned, snap>>

ResolveUrl_Start(h) == ResolveUrl_StartWith(h, PathTexts)

LockIgnoresHolder(h, at, to) ==
    /\ pc[h] = at
    /\ IF poisoned
          THEN /\ ReturnWith(h, StatusCode("LOCKED"))
               /\ UNCHANGED <<lock, snap>>
          ELSE /\ lock' = h
               /\ snap' = [snap EXCEPT ![h] = items]
               /\ pc' = [pc EXCEPT ![h] = to]
               /\ UNCHANGED req
    /\ UNCHANGED <<storeVars, poisoned>>

LockIgnoresPoison(h, at, to) ==
    /\ pc[h] = at
    /\ lock = NoHandler
    /\ lock' = h
    /\ snap' = [snap EXCEPT ![h] = items]
    /\ pc' = [pc EXCEPT ![h] = to]
    /\ UNCHANGED <<storeVars, req, poisoned>>

\* state.lock().map_err(|_| http::StatusCode::LOCKED)?: blocks until the mutex
\* is free; on a poisoned mutex the guard comes inside the error and is
\* dropped with it
Lock(h, at, to) ==
    /\ pc[h] = at
    /\ lock = NoHandler
    /\ IF poisoned
          THEN /\ ReturnWith(h, StatusCode("LOCKED"))
               /\ UNCHANGED <<lock, snap>>
          ELSE /\ lock' = h
               /\ snap' = [snap EXCEPT ![h] = items]
               /\ pc' = [pc EXCEPT ![h] = to]
               /\ UNCHANGED req
    /\ UNCHANGED <<storeVars, poisoned>>

ResolveUrl_Lock(h) == Lock(h, "resolve_lock", "resolve_parse")

ResolveUrl_ParseBadRequest(h) ==
    /\ pc[h] = "resolve_parse"
    /\ LET parsed == TryFrom(req[h].text)
       IN  IF parsed.ok
              THEN /\ req' = [req EXCEPT ![h].tok = parsed.val]
                   /\ pc' = [pc EXCEPT ![h] = "resolve_get"]
                   /\ UNCHANGED lock
              ELSE /\ ReturnWith(h, StatusCode("BAD_REQUEST"))
                   /\ lock' = NoHandler
    /\ UNCHANGED <<storeVars, poisoned, snap>>

ResolveUrl_ParseKeepsGuard(h) ==
    /\ pc[h] = "resolve_parse"
    /\ LET parsed == TryFrom(req[h].text)
       IN  IF parsed.ok
              THEN /\ req' = [req EXCEPT ![h].tok = parsed.val]
                   /\ pc' = [pc EXCEPT ![h] = "resolve_get"]
              ELSE ReturnWith(h, StatusCode("NOT_FOUND"))
    /\ UNCHANGED <<storeVars, lock, poisoned, snap>>

\* resolve_token: Token::try_from(token)?
ResolveUrl_Parse(h) ==
    /\ pc[h] = "resolve_parse"
    /\ LET parsed == TryFrom(req[h].text)
       IN  IF parsed.ok
              THEN /\ req' = [req EXCEPT ![h].tok = parsed.val]
                   /\ pc' = [pc EXCEPT ![h] = "resolve_get"]
                   /\ UNCHANGED lock
              ELSE /\ ReturnWith(h, StatusCode("NOT_FOUND"))
                   /\ lock' = NoHandler
    /\ UNCHANGED <<storeVars, poisoned, snap>>

\* resolve_token: self.items.get(&token); resolve_url returns the redirect
\* or NOT_FOUND
ResolveUrl_Get(h) ==
    /\ pc[h] = "resolve_get"
    /\ LET got == HashMapGet(items, req[h].tok)
       IN  IF got.some
              THEN ReturnWith(h, RedirectTo(got.val))
              ELSE ReturnWith(h, StatusCode("NOT_FOUND"))
    /\ lock' = NoHandler
    /\ UNCHANGED <<storeVars, poisoned, snap>>

\* POST / is routed to register_url, with headers of hdrs and a body of
\* bodies; extract_base_url(&req)
RegisterUrl_StartWith(h, hdrs, bodies) ==
    /\ pc[h] = "idle"
    /\ Len(log) + Cardinality(RegistersInFlight) < MaxRegs
    /\ \E hdr \in hdrs, body \in bodies :
          LET base == extract_base_url(hdr)
              r == [NoReq EXCEPT !.kind = "register_url", !.hdr = hdr,
                                 !.body = body, !.base = base.val]
          IN  IF base.ok
                 THEN /\ req' = [req EXCEPT ![h] = r]
                      /\ pc' = [pc EXCEPT ![h] = "register_body"]
                 ELSE /\ req' = [req EXCEPT ![h] =
                            [r EXCEPT !.resp = StatusCode("INTERNAL_SERVER_ERROR")]]
                      /\ pc' = [pc EXCEPT ![h] = "done"]
    /\ UNCHANGED <<storeVars, lock, poisoned, snap>>

RegisterUrl_Start(h) == RegisterUrl_StartWith(h, HeaderSets, Bodies)

\* extract_body_url(req).await
RegisterUrl_Body(h) ==
    /\ pc[h] = "register_body"
    /\ LET target == extract_body_url(req[h].body)
       IN  IF target.ok
              THEN /\ req' = [req EXCEPT ![h].url = target.val]
                   /\ pc' = [pc EXCEPT ![h] = "register_lock"]
              ELSE ReturnWith(h, StatusCode("BAD_REQUEST"))
    /\ UNCHANGED <<storeVars, lock, poisoned, snap>>

RegisterUrl_Lock(h) == Lock(h, "register_lock", "register_token")

\* register_url: Token::default(), on a random stream of streams
RegisterUrl_TokenWith(h, streams) ==
    /\ pc[h] = "register_token"
    /\ \E stream \in streams :
          req' = [req EXCEPT ![h].tok = TokenDefault(stream)]
    /\ pc' = [pc EXCEPT ![h] = "register_insert"]
    /\ UNCHANGED <<storeVars, lock, poisoned, snap>>

RegisterUrl_Token(h) == RegisterUrl_TokenWith(h, RngStreams)

\* register_url: self.items.insert(token.clone(), url); Ok(token); the guard
\* is dropped at the end of the block
RegisterUrl_Insert(h) ==
    /\ pc[h] = "register_insert"
    /\ items' = HashMapInsert(items, req[h].tok, req[h].url)
    /\ log' = Append(log, <<req[h].tok, req[h].url>>)
    /\ lock' = NoHandler
    /\ pc' = [pc EXCEPT ![h] = "register_join"]
    /\ req' = [req EXCEPT ![h].inserted = TRUE]
    /\ UNCHANGED <<call, prev, poisoned, snap>>

\* base_url.join(token.as_str()) and the response
RegisterUrl_Join(h) ==
    /\ pc[h] = "register_join"
    /\ LET resolved == UrlJoin(req[h].base, as_str(req[h].tok))
       IN  IF resolved.ok
              THEN ReturnWith(h, OkBody(resolved.val))
              ELSE ReturnWith(h, StatusCode("INTERNAL_SERVER_ERROR"))
    /\ UNCHANGED <<storeVars, lock, poisoned, snap>>

\* the response is sent; the task serves the next request
Respond(h) ==
    /\ pc[h] = "done"
    /\ pc' = [pc EXCEPT ![h] = "idle"]
    /\ req' = [req EXCEPT ![h] = NoReq]
    /\ snap' = [snap EXCEPT ![h] = {}]
    /\ UNCHANGED <<storeVars, lock, poisoned>>

NextHttp ==
    \E h \in Handlers :
        \/ ResolveUrl_Start(h)
        \/ ResolveUrl_Lock(h)
        \/ ResolveUrl_Parse(h)
        \/ ResolveUrl_Get(h)
        \/ RegisterUrl_Start(h)
        \/ RegisterUrl_Body(h)
        \/ RegisterUrl_Lock(h)
        \/ RegisterUrl_Token(h)
        \/ RegisterUrl_Insert(h)
        \/ RegisterUrl_Join(h)
        \/ Respond(h)

SpecHttp == Init /\ [][NextHttp]_vars

----------------------------------------------------------------------------
(* The handlers under a fair scheduler.  Progress depends on the control   *)
(* flow alone, so the requests carry one input of each kind: a text that   *)
(* fails to parse and one that a registration can produce, headers that    *)
(* give a base URL, no base URL and a base URL that cannot be joined, a    *)
(* body that is a URL and one that is not, and two random streams.         *)

FairTexts == { <<97, 98, 99, 49, 50>>, <<97, 97, 97, 97, 97, 97>> }

FairHeaders == { hdr \in HeaderSets : hdr.xfh = NoHeader }

FairBodies == {"https://example1.com", "not-a-url"}

FairStreams == { stream \in RngStreams : stream[StreamLen] = 97 /\ stream[1] # 55 }

\* the steps of a handler that runs: all but the arrival of a request and
\* the acquisition of the lock
Runs(h) ==
    \/ ResolveUrl_Parse(h)
    \/ ResolveUrl_Get(h)
    \/ RegisterUrl_Body(h)
    \/ RegisterUrl_TokenWith(h, FairStreams)
    \/ RegisterUrl_Insert(h)
    \/ RegisterUrl_Join(h)
    \/ Respond(h)

NextFair ==
    \E h \in Handlers :
        \/ ResolveUrl_StartWith(h, FairTexts)
        \/ RegisterUrl_StartWith(h, FairHeaders, FairBodies)
        \/ ResolveUrl_Lock(h)
        \/ RegisterUrl_Lock(h)
        \/ Runs(h)

\* a fair scheduler: a task that can run does, and a task that waits for the
\* mutex gets it if it is free again and again
Fairness ==
    \A h \in Handlers :
        /\ WF_vars(Runs(h))
        /\ SF_vars(ResolveUrl_Lock(h))
        /\ SF_vars(RegisterUrl_Lock(h))

SpecFair == Init /\ [][NextFair]_vars /\ Fairness

----------------------------------------------------------------------------
(* A store that panics: AppState.store is a Box<dyn StoreAccess> *)

\* the StoreAccess call of the handler panics: the unwinding drops the guard,
\* which poisons the mutex, and the task ends without a response
StorePanics(h) ==
    /\ pc[h] \in {"resolve_parse", "resolve_get", "register_token", "register_insert"}
    /\ lock = h
    /\ poisoned' = TRUE
    /\ lock' = NoHandler
    /\ ReturnWith(h, StatusCode("PANICKED"))
    /\ UNCHANGED <<storeVars, snap>>

NextPoison == NextHttp \/ \E h \in Handlers : StorePanics(h)

SpecPoison == Init /\ [][NextPoison]_vars

----------------------------------------------------------------------------
(* History of the registrations *)

\* the tokens register_url has returned so far
Issued == { log[i][1] : i \in 1..Len(log) }

\* the URLs of the registrations that produced token t
RegisteredFor(t) == { log[i][2] : i \in { j \in 1..Len(log) : log[j][1] = t } }

\* the URL of the most recent registration that produced token t
Latest(t) ==
    LET at == { j \in 1..Len(log) : log[j][1] = t }
    IN  log[CHOOSE j \in at : \A k \in at : k <= j][2]

\* what store.resolve_token(t.as_str()) returns in the current state
ResolveNow(t) == Store_resolve_token(items, as_str(t)).ret

----------------------------------------------------------------------------
(* C1: round trip.  register_url(u) returns a token t, and a                *)
(* resolve_token(t.as_str()) called directly after it returns Ok(u), in      *)
(* every store state.                                                        *)
C1_RoundTrip ==
    /\ call.op = "register_url" =>
          /\ call.ok
          /\ call.token # NoToken
          /\ ResolveNow(call.token) = Ok(call.url)
    /\ (/\ call.op = "resolve_token"
        /\ prev.op = "register_url"
        /\ prev.token # NoToken
        /\ call.text = as_str(prev.token))
          => (call.ok /\ call.resUrl = prev.url)

\* a resolve directly after the second registration of a behaviour
C1_Witness ==
    /\ call.op = "resolve_token"
    /\ prev.op = "register_url"
    /\ call.text = as_str(prev.token)
    /\ Len(log) = 2
    /\ call.resUrl = prev.url

C3_LastWriteWins ==
    /\ call.op = "register_url" => call.ok
    /\ \A t \in Issued :
          /\ Cardinality({ e \in items : e[1] = t }) = 1
          /\ ResolveNow(t) = Ok(Latest(t))
    /\ (call.op = "resolve_token" /\ call.parsedOk /\ call.parsed \in Issued)
          => (call.ok /\ call.resUrl = Latest(call.parsed))

\* a resolve of a token that two registrations with different URLs produced
C3_Witness ==
    /\ call.op = "resolve_token"
    /\ call.parsedOk
    /\ Cardinality(RegisteredFor(call.parsed)) = 2
    /\ call.ok

(* C4: mutual exclusion.  At most one handler holds the state lock; every  *)
(* step of a Store call is taken by the holder, on the mapping as it was    *)
(* when the lock was acquired; so each request's outcome is that of the     *)
(* whole Store call on that mapping, and the mapping is the result of the   *)
(* registrations applied one after the other in the order of the log.       *)
InStoreCall(h) ==
    pc[h] \in {"resolve_parse", "resolve_get", "register_token", "register_insert"}

RECURSIVE Replay(_)
\* the mapping after the registrations of a log, applied one at a time
Replay(l) ==
    IF l = <<>> THEN {}
    ELSE HashMapInsert(Replay(SubSeq(l, 1, Len(l) - 1)), l[Len(l)][1], l[Len(l)][2])

\* the response of resolve_url for a result of resolve_token
ResolveResponse(ret) ==
    IF ret.ok THEN RedirectTo(ret.val) ELSE StatusCode("NOT_FOUND")

C4_MutualExclusion ==
    /\ \A h1, h2 \in Handlers : (InStoreCall(h1) /\ InStoreCall(h2)) => h1 = h2
    /\ \A h \in Handlers : InStoreCall(h) <=> lock = h
    /\ \A h \in Handlers : InStoreCall(h) => items = snap[h]
    /\ \A h \in Handlers :
          (pc[h] = "done" /\ req[h].kind = "resolve_url") =>
              req[h].resp = ResolveResponse(Store_resolve_token(snap[h], req[h].text).ret)
    /\ \A h \in Handlers :
          pc[h] = "register_join" =>
              /\ \E stream \in RngStreams :
                    Store_register_url(snap[h], req[h].url, stream).ret = Ok(req[h].tok)
              /\ req[h].tok \in Keys(items)
    /\ items = Replay(log)

\* one handler is inside resolve_token while the other waits for the lock
\* to register, on a store that holds an entry
C4_Witness ==
    \E h1, h2 \in Handlers :
        /\ pc[h1] = "resolve_get"
        /\ pc[h2] = "register_lock"
        /\ lock = h1
        /\ items # {}

(* C5: every key of the mapping is a token of 6 alphanumeric characters,    *)
(* whatever register_url and resolve_token calls were made.                  *)
C5_StoreKeys ==
    \A k \in Keys(items) :
        /\ CharCount(as_str(k)) = TOKEN_LENGTH
        /\ StrLen(as_str(k)) = TOKEN_LENGTH
        /\ AllAlphanumeric(as_str(k))

\* a resolve of the 6-byte text "ab-cde" on a store that holds entries
C5_Witness ==
    /\ call.op = "resolve_token"
    /\ call.text = <<97, 98, 45, 99, 100, 101>>
    /\ call.parsedOk
    /\ items # {}

\* the Token values of the current state
TokensInExistence ==
    Keys(items) \cup Issued
        \cup (IF call.op = "register_url" /\ call.ok THEN {call.token} ELSE {})
        \cup (IF call.op = "resolve_token" /\ call.parsedOk THEN {call.parsed} ELSE {})

(* C6 as stated: every Token, generated or parsed, has 6 characters, all    *)
(* alphanumeric.                                                             *)
C6_Original ==
    \A t \in TokensInExistence :
        /\ CharCount(as_str(t)) = TOKEN_LENGTH
        /\ AllAlphanumeric(as_str(t))

(* C6, amended: every generated Token has 6 characters, all alphanumeric;   *)
(* every parsed Token is 6 bytes long (str::len) and holds the input text,  *)
(* whatever its characters.                                                  *)
C6_TokenInvariant ==
    /\ \A t \in Keys(items) \cup Issued :
          /\ CharCount(as_str(t)) = TOKEN_LENGTH
          /\ AllAlphanumeric(as_str(t))
    /\ (call.op = "register_url" /\ call.ok) =>
          /\ CharCount(as_str(call.token)) = TOKEN_LENGTH
          /\ AllAlphanumeric(as_str(call.token))
    /\ (call.op = "resolve_token" /\ call.parsedOk) =>
          /\ StrLen(as_str(call.parsed)) = TOKEN_LENGTH
          /\ as_str(call.parsed) = call.text

\* a parsed Token with a character that is not alphanumeric
C6_Witness ==
    /\ call.op = "resolve_token"
    /\ call.parsedOk
    /\ ~AllAlphanumeric(as_str(call.parsed))

C8_NotFound ==
    call.op = "resolve_token" =>
        /\ (call.parsedOk /\ call.parsed \notin Keys(call.before)) =>
              /\ ~call.ok
              /\ call.resUrl = NoUrl
              /\ call.err = "Token not found"
              /\ items = call.before
        /\ call.before = {} => ~call.ok

\* a 6-byte text that is no key, resolved on a store that holds entries
C8_Witness ==
    /\ call.op = "resolve_token"
    /\ call.parsedOk
    /\ call.parsed \notin Keys(call.before)
    /\ call.before # {}

(* C9: resolve_token leaves the mapping as it was, on success and on        *)
(* failure.                                                                  *)
C9_ResolveIsPureRead ==
    call.op = "resolve_token" => items = call.before

\* a successful resolve on a store of two entries
C9_Witness ==
    /\ call.op = "resolve_token"
    /\ call.ok
    /\ Cardinality(call.before) = 2

(* C10: no step removes a key of the mapping, and a resolve of a token      *)
(* that register_url has returned succeeds, with the URL of a registration  *)
(* that produced it.                                                         *)
C10_Monotonic ==
    /\ [][Keys(items) \subseteq Keys(items')]_vars
    /\ [](Issued \subseteq Keys(items))
    /\ []((call.op = "resolve_token" /\ call.parsedOk /\ call.parsed \in Issued)
            => (call.ok /\ call.resUrl \in RegisteredFor(call.parsed)))

\* a resolve of the token of the first registration after a second one
C10_Witness ==
    /\ call.op = "resolve_token"
    /\ Len(log) = 2
    /\ call.parsedOk
    /\ call.parsed = log[1][1]
    /\ log[2][1] # log[1][1]
    /\ prev.op = "resolve_token"

(* C11: Store::register_url returns Ok with a token for every URL, in      *)
(* every store state, also when the generated token is already a key.       *)
C11_RegisterAlwaysSucceeds ==
    call.op = "register_url" =>
        /\ call.ok
        /\ call.err = ""
        /\ call.token \in Keys(items)
        /\ CharCount(as_str(call.token)) = TOKEN_LENGTH

\* a registration whose generated token was a key of the mapping already
C11_Witness ==
    /\ call.op = "register_url"
    /\ call.ok
    /\ call.token \in Keys(call.before)

(* C13: a 6-byte token text with a character that is not alphanumeric       *)
(* passes Token::try_from, and resolve_token then fails as not found, never *)
(* with the length error and never with a URL.                              *)
C13_CharsetNotValidated ==
    (/\ call.op = "resolve_token"
     /\ StrLen(call.text) = TOKEN_LENGTH
     /\ ~AllAlphanumeric(call.text))
        => /\ call.parsedOk
           /\ as_str(call.parsed) = call.text
           /\ ~call.ok
           /\ call.resUrl = NoUrl
           /\ call.err = "Token not found"

\* "ab-cde" resolved on a store that holds two entries
C13_Witness ==
    /\ call.op = "resolve_token"
    /\ call.text = <<97, 98, 45, 99, 100, 101>>
    /\ Cardinality(call.before) = 2
    /\ ~call.ok

(* C16: a register_url(u) that returns t changes the mapping at key t       *)
(* alone, which becomes u; the other entries stay, and the number of        *)
(* entries grows by 1 when t was no key and by 0 when it was.                *)
C16_RegisterFrame ==
    (call.op = "register_url" /\ call.ok) =>
        /\ <<call.token, call.url>> \in items
        /\ { e \in items : e[1] # call.token } = { e \in call.before : e[1] # call.token }
        /\ Cardinality({ e \in items : e[1] = call.token }) = 1
        /\ Cardinality(items) =
              Cardinality(call.before)
                  + (IF call.token \in Keys(call.before) THEN 0 ELSE 1)
        /\ call.before = {} => Cardinality(items) = 1

\* a registration that added a second entry beside an untouched first one
C16_Witness ==
    /\ call.op = "register_url"
    /\ Cardinality(call.before) = 1
    /\ call.token \notin Keys(call.before)
    /\ Cardinality(items) = 2

LockPcs == {"resolve_lock", "register_lock"}

(* C12: a handler that finds the mutex poisoned returns LOCKED in that      *)
(* step, with the mapping neither read nor changed; and LOCKED comes from   *)
(* no other path: it is the status of a request only if its lock() met the  *)
(* poison, after a valid body and before any Store call.                    *)
C12_LockedOnPoison ==
    /\ [][\A h \in Handlers :
            (poisoned /\ pc[h] \in LockPcs /\ pc'[h] # pc[h]) =>
                /\ pc'[h] = "done"
                /\ req'[h].resp = StatusCode("LOCKED")
                /\ items' = items
                /\ lock' = lock]_vars
    /\ [][\A h \in Handlers :
            (req'[h].resp.status = "LOCKED" /\ req[h].resp.status # "LOCKED") =>
                (poisoned /\ pc[h] \in LockPcs)]_vars
    /\ [](\A h \in Handlers :
            req[h].resp.status = "LOCKED" =>
                /\ poisoned
                /\ req[h].tok = NoToken
                /\ ~req[h].inserted
                /\ snap[h] = {}
                /\ req[h].kind = "register_url" =>
                      (extract_base_url(req[h].hdr).ok /\ extract_body_url(req[h].body).ok))
    /\ [](\A h \in Handlers :
            (pc[h] = "done" /\ req[h].kind = "register_url"
                /\ ~extract_body_url(req[h].body).ok /\ extract_base_url(req[h].hdr).ok)
                => req[h].resp = StatusCode("BAD_REQUEST"))

\* a registration answered LOCKED by a store that holds an entry
C12_Witness ==
    \E h \in Handlers :
        /\ pc[h] = "done"
        /\ req[h].kind = "register_url"
        /\ req[h].resp = StatusCode("LOCKED")
        /\ items # {}

(* C14: when the lock is acquired, resolve_url answers a token text s with  *)
(* a redirect to the URL mapped to s if s is a key of the mapping, and with *)
(* NOT_FOUND otherwise, whether s has the wrong length or is unmapped.      *)
C14_ResolveUrlOutcome ==
    \A h \in Handlers :
        (/\ pc[h] = "done"
         /\ req[h].kind = "resolve_url"
         /\ req[h].resp.status \notin {"LOCKED", "PANICKED"})
            => LET k == Token(req[h].text)
               IN  IF k \in Keys(snap[h])
                      THEN /\ req[h].resp.status = "SEE_OTHER"
                           /\ <<k, req[h].resp.location>> \in snap[h]
                           /\ req[h].resp.body = <<>>
                      ELSE req[h].resp = StatusCode("NOT_FOUND")

\* a wrong-length text answered NOT_FOUND by a store that holds entries
C14_Witness ==
    \E h \in Handlers :
        /\ pc[h] = "done"
        /\ req[h].kind = "resolve_url"
        /\ StrLen(req[h].text) # TOKEN_LENGTH
        /\ req[h].resp = StatusCode("NOT_FOUND")
        /\ Cardinality(snap[h]) = 2

ErrorStatuses == {"BAD_REQUEST", "LOCKED", "INTERNAL_SERVER_ERROR"}

(* C15: a register_url request that ends with an error status has inserted *)
(* nothing into the mapping; only requests that return a short URL insert.  *)
C15_NoPartialFailure ==
    \A h \in Handlers :
        (pc[h] = "done" /\ req[h].kind = "register_url") =>
            /\ req[h].resp.status \in ErrorStatuses => ~req[h].inserted
            /\ req[h].inserted => req[h].resp.status = "OK"

====
